---- MODULE Spec2Model ----
(***************************************************************************)
(* Model of crates/binstalk-downloader/src/download.rs: the Download       *)
(* request, its verifying stream (map + fuse over the client's stream),    *)
(* the post-failure drain (consume_stream), the two terminal operations    *)
(* (and_extract, and_visit_tar) and the DownloadError <-> io::Error         *)
(* conversions.                                                             *)
(***************************************************************************)
EXTENDS Integers, Sequences, FiniteSets, TLC

\* ------------------------------------------------------------------ bounds

\* Longest body each of two concurrent requests is served.
MaxConcItems == 2
\* Deepest path an archive entry has, in components.
MaxDepth == 2
\* How many distinct (path, kind) pairs one extraction records.
MaxRecords == 3
\* Longest body (chunks and errors before end-of-stream) a remote serves.
MaxItems == 3
\* How many times a strategy may see end-of-stream before it must return.
MaxEndPolls == 2
\* Nesting depth of the error values the conversions are applied to.
ErrDepth == 2
\* How many conversions are chained on one error value.
MaxConversions == 2

\* --------------------------------------------------------------- requests

\* Slots for Download requests; a slot is "unused" until a request is built.
Requests == {1, 2}

PkgFmts == {"Tar", "Tbz2", "Tgz", "Txz", "Tzstd", "Bin", "Zip"}
TarBasedFmts == {"Tar", "Tbz2", "Tgz", "Txz", "Tzstd"}

VARIABLES
    pc,                 \* where each request is: unused, new, opening, strategy, drain, done
    op,                 \* the terminal operation called and its format
    data_verifier,      \* Download::data_verifier.is_some()
    remote,             \* what client.get_stream(url) serves: [open, body]
    has_data_verifier,  \* the local of and_extract / and_visit_tar
    stream,             \* the client's stream: [pos, polls]
    fuse_done,          \* Fuse's done flag
    observed,           \* chunks passed to DataVerifier::update, in call order
    log,                \* history of the verifying stream: poll, update, yield
    invoked,            \* strategies called, in call order
    res,                \* the strategy's result
    ret,                \* what the terminal operation returned
    conv,               \* error values as they pass through the conversions
    extracted_files,    \* the ledger a strategy builds: path -> File or Dir(children)
    recorded            \* the (path, is_directory) pairs recorded so far

vars == <<pc, op, data_verifier, remote, has_data_verifier, stream, fuse_done,
          observed, log, invoked, res, ret, conv, extracted_files, recorded>>

pipeVars == <<pc, op, data_verifier, remote, has_data_verifier, stream,
              fuse_done, observed, log, invoked, res, ret>>

\* ------------------------------------------------------------ stream items

NoneItem == [kind |-> "none", url |-> 0, seq |-> 0]

\* The i-th item of request r's body: a chunk of bytes or a network failure.
Item(r, i) == [kind |-> remote[r].body[i], url |-> r, seq |-> i]

RECURSIVE SeqsUpTo(_, _)
SeqsUpTo(S, n) ==
    IF n = 0 THEN {<< >>}
    ELSE LET shorter == SeqsUpTo(S, n - 1)
         IN  shorter \cup {Append(s, x) : s \in {t \in shorter : Len(t) = n - 1}, x \in S}

Bodies == SeqsUpTo({"chunk", "err"}, MaxItems)

\* ------------------------------------------------------------------ errors

RemoteError(item) == [tag |-> "Remote", val |-> item]

\* Failures an extraction strategy raises by itself.
StrategyErrors == {[tag |-> "Io", val |-> NoneItem], [tag |-> "Unzip", val |-> NoneItem]}

Pending == [tag |-> "Pending", val |-> NoneItem]
Ok(what) == [tag |-> "Ok", val |-> [kind |-> what, url |-> 0, seq |-> 0]]
Err(e) == [tag |-> "Err", val |-> e]

\* The failure of client.get_stream(url) itself.
OpenError(r) == RemoteError([kind |-> "open", url |-> r, seq |-> 0])

\* ------------------------------------------------- the verifying stream

\* One poll of the stream client.get_stream(url) returned.
SourcePoll(r) ==
    LET s == stream[r]
        more == s.pos < Len(remote[r].body)
    IN  [item   |-> IF more THEN Item(r, s.pos + 1) ELSE NoneItem,
         stream |-> [pos |-> IF more THEN s.pos + 1 ELSE s.pos, polls |-> s.polls + 1]]

\* Map as it would be with the verifier left out of the closure.
MapWithoutVerifier(dv, who, item) == <<[ev |-> "yield", who |-> who, item |-> item]>>

\* The closure given to map: `res?` passes a failure on untouched, a chunk goes
\* to the verifier (if any) and is then yielded.
Map(dv, who, item) ==
    (IF item.kind = "chunk" /\ dv
        THEN <<[ev |-> "update", who |-> who, item |-> item]>>
        ELSE << >>)
    \o <<[ev |-> "yield", who |-> who, item |-> item]>>

\* The stream as it would be if a failed pull ended it like end-of-stream.
FuseSkipsAfterError(r) ==
    \/ fuse_done[r]
    \/ \E i \in 1..Len(log[r]) : log[r][i].ev = "yield" /\ log[r][i].item.kind = "err"

\* The stream as it would be without the trailing fuse().
FuseNeverSkips(r) == FALSE

\* Fuse::poll_next answers None by itself once the inner stream has ended.
FuseSkips(r) == fuse_done[r]

\* The verifier as it would be if every request's closure updated one shared
\* verifier.
VerifierShared(r) == 1

\* The verifier a request's closure updates: the one it exclusively borrows
\* (`let mut data_verifier = self.data_verifier`, moved into the closure).
Verifier(r) == r

Updates(events) == SelectSeq(events, LAMBDA e : e.ev = "update")
ItemsOf(events) == [i \in 1..Len(events) |-> events[i].item]

\* stream.next().await on the stream get_stream built, called by `who`.
StreamNext(r, who) ==
    IF FuseSkips(r)
    THEN [item     |-> NoneItem,
          stream   |-> stream[r],
          done     |-> fuse_done[r],
          observed |-> observed[Verifier(r)],
          log      |-> Append(log[r], [ev |-> "yield", who |-> who, item |-> NoneItem])]
    ELSE LET p == SourcePoll(r)
             events == Map(data_verifier[r], who, p.item)
         IN  [item     |-> p.item,
              stream   |-> p.stream,
              done     |-> p.item.kind = "none",
              observed |-> observed[Verifier(r)] \o ItemsOf(Updates(events)),
              log      |-> log[r] \o <<[ev |-> "poll", who |-> who, item |-> p.item]>>
                                  \o events]

\* ----------------------------------------------------- terminal operations

\* PkgFmt::decompose: the tar family keeps its compression variant.
Decompose(fmt) ==
    CASE fmt \in TarBasedFmts -> [tag |-> "Tar", fmt |-> fmt]
      [] fmt = "Bin"          -> [tag |-> "Bin", fmt |-> "none"]
      [] fmt = "Zip"          -> [tag |-> "Zip", fmt |-> "none"]

\* The match as it would be with the Bin and Zip arms exchanged.
DispatchArmsSwapped(fmt) ==
    LET d == Decompose(fmt)
    IN  CASE d.tag = "Tar" -> [fn |-> "extract_tar_based_stream", fmt |-> d.fmt]
          [] d.tag = "Bin" -> [fn |-> "extract_zip", fmt |-> "none"]
          [] d.tag = "Zip" -> [fn |-> "extract_bin", fmt |-> "none"]

\* The match of and_extract on fmt.decompose(): the one strategy it calls.
Dispatch(fmt) ==
    LET d == Decompose(fmt)
    IN  CASE d.tag = "Tar" -> [fn |-> "extract_tar_based_stream", fmt |-> d.fmt]
          [] d.tag = "Bin" -> [fn |-> "extract_bin", fmt |-> "none"]
          [] d.tag = "Zip" -> [fn |-> "extract_zip", fmt |-> "none"]

\* The call and_visit_tar makes.
VisitCall(fmt) == [fn |-> "extract_tar_based_stream_and_visit", fmt |-> fmt]

\* What a running strategy has been handed by the stream so far.
YieldedTo(r, who) == SelectSeq(log[r], LAMBDA e : e.ev = "yield" /\ e.who = who)
EndsSeen(r) == Len(SelectSeq(YieldedTo(r, "strategy"), LAMBDA e : e.item.kind = "none"))

\* The failures a strategy may return: its own, or one the stream handed it.
StrategyFailures(r) ==
    StrategyErrors \cup
    {RemoteError(YieldedTo(r, "strategy")[i].item) :
        i \in {j \in 1..Len(YieldedTo(r, "strategy")) :
                  YieldedTo(r, "strategy")[j].item.kind = "err"}}

\* The Err arm as it would be if it never drained, and if it always did.
ShouldDrainNever(r) == FALSE
ShouldDrainAlways(r) == TRUE

\* `if has_data_verifier` in the Err arm of both terminal operations.
ShouldDrain(r) == has_data_verifier[r]

\* consume_stream's loop goes on after Some(Ok(_)) only: None ends the
\* `while let`, Some(Err(_)) is logged and breaks.
DrainContinues(item) == item.kind = "chunk"

\* The Err arm as it would be if a failure met by the drain were returned.
ReturnedLastError(strategyErr, drained) ==
    IF drained.kind = "err" THEN RemoteError(drained) ELSE strategyErr

\* `Err(err)` after the drain: err is the strategy's error.
ReturnedError(strategyErr, drained) == strategyErr

\* let has_data_verifier = self.data_verifier.is_some(); then get_stream()
\* up to its first suspension: the verifier is moved out of self and the
\* request is issued; the future waits at `client.get_stream(url).await`.
Start(r) ==
    /\ pc[r] = "new"
    /\ has_data_verifier' = [has_data_verifier EXCEPT ![r] = data_verifier[r]]
    /\ pc' = [pc EXCEPT ![r] = "opening"]
    /\ UNCHANGED <<op, data_verifier, remote, stream, fuse_done, observed, log, invoked,
                   res, ret, conv, extracted_files, recorded>>

AndExtractStart(r) ==
    /\ op[r].fn = "and_extract"
    /\ Start(r)

AndVisitTarStart(r) ==
    /\ op[r].fn = "and_visit_tar"
    /\ Start(r)

\* The resumption as it would be without the `?` after the awaits.
OpenedUnchecked(r, call) ==
    /\ pc[r] = "opening"
    /\ pc' = [pc EXCEPT ![r] = "strategy"]
    /\ invoked' = [invoked EXCEPT ![r] = Append(@, call)]
    /\ UNCHANGED <<op, data_verifier, remote, has_data_verifier, stream, fuse_done,
                   observed, log, res, ret, conv, extracted_files, recorded>>

\* The future is resumed with the answer to the request: the `?` of
\* get_stream and of its caller return Err(Remote) when the request
\* failed; otherwise the stream is built (map, fuse) and the strategy
\* `call` is called.
Opened(r, call) ==
    /\ pc[r] = "opening"
    /\ IF remote[r].open
       THEN /\ pc' = [pc EXCEPT ![r] = "strategy"]
            /\ invoked' = [invoked EXCEPT ![r] = Append(@, call)]
            /\ ret' = ret
       ELSE /\ pc' = [pc EXCEPT ![r] = "done"]
            /\ ret' = [ret EXCEPT ![r] = Err(OpenError(r))]
            /\ invoked' = invoked
    /\ UNCHANGED <<op, data_verifier, remote, has_data_verifier, stream, fuse_done,
                   observed, log, res, conv, extracted_files, recorded>>

AndExtractOpened(r) ==
    /\ op[r].fn = "and_extract"
    /\ Opened(r, Dispatch(op[r].fmt))

AndVisitTarOpened(r) ==
    /\ op[r].fn = "and_visit_tar"
    /\ Opened(r, VisitCall(op[r].fmt))

\* The strategy (or the visit) pulls the next item of the stream.
StrategyPull(r) ==
    /\ pc[r] = "strategy"
    /\ EndsSeen(r) < MaxEndPolls
    /\ LET p == StreamNext(r, "strategy")
       IN  /\ stream' = [stream EXCEPT ![r] = p.stream]
           /\ fuse_done' = [fuse_done EXCEPT ![r] = p.done]
           /\ observed' = [observed EXCEPT ![Verifier(r)] = p.observed]
           /\ log' = [log EXCEPT ![r] = p.log]
    /\ UNCHANGED <<pc, op, data_verifier, remote, has_data_verifier, invoked, res, ret, conv, extracted_files, recorded>>

\* The Ok arm as it would be if it drained for the verifier like the Err arm.
StrategyOkThenDrain(r, what) ==
    /\ pc[r] = "strategy"
    /\ res' = [res EXCEPT ![r] = Ok(what)]
    /\ IF has_data_verifier[r]
       THEN /\ pc' = [pc EXCEPT ![r] = "drain"]
            /\ ret' = ret
       ELSE /\ pc' = [pc EXCEPT ![r] = "done"]
            /\ ret' = [ret EXCEPT ![r] = Ok(what)]
    /\ UNCHANGED <<op, data_verifier, remote, has_data_verifier, stream, fuse_done,
                   observed, log, invoked, conv, extracted_files, recorded>>

\* The strategy returns Ok: the Ok arm returns its value at once.
StrategyOk(r, what) ==
    /\ pc[r] = "strategy"
    /\ res' = [res EXCEPT ![r] = Ok(what)]
    /\ ret' = [ret EXCEPT ![r] = Ok(what)]
    /\ pc' = [pc EXCEPT ![r] = "done"]
    /\ UNCHANGED <<op, data_verifier, remote, has_data_verifier, stream, fuse_done,
                   observed, log, invoked, conv, extracted_files, recorded>>

AndExtractOk(r) ==
    /\ op[r].fn = "and_extract"
    /\ StrategyOk(r, "ExtractedFiles")

AndVisitTarOk(r) ==
    /\ op[r].fn = "and_visit_tar"
    /\ StrategyOk(r, "()")

\* The strategy returns Err(e): the Err arm drains if a verifier was attached,
\* else returns Err(e) at once.
StrategyErr(r, e) ==
    /\ pc[r] = "strategy"
    /\ res' = [res EXCEPT ![r] = Err(e)]
    /\ IF ShouldDrain(r)
       THEN /\ pc' = [pc EXCEPT ![r] = "drain"]
            /\ ret' = ret
       ELSE /\ pc' = [pc EXCEPT ![r] = "done"]
            /\ ret' = [ret EXCEPT ![r] = Err(e)]
    /\ UNCHANGED <<op, data_verifier, remote, has_data_verifier, stream, fuse_done,
                   observed, log, invoked, conv, extracted_files, recorded>>

AndExtractErr(r) ==
    /\ op[r].fn = "and_extract"
    /\ \E e \in StrategyFailures(r) : StrategyErr(r, e)

AndVisitTarErr(r) ==
    /\ op[r].fn = "and_visit_tar"
    /\ \E e \in StrategyFailures(r) : StrategyErr(r, e)

\* One turn of consume_stream's loop; when the loop ends the terminal
\* operation returns Err(err).
ConsumeStream(r) ==
    /\ pc[r] = "drain"
    /\ LET p == StreamNext(r, "drain")
       IN  /\ stream' = [stream EXCEPT ![r] = p.stream]
           /\ fuse_done' = [fuse_done EXCEPT ![r] = p.done]
           /\ observed' = [observed EXCEPT ![Verifier(r)] = p.observed]
           /\ log' = [log EXCEPT ![r] = p.log]
           /\ IF DrainContinues(p.item)
              THEN UNCHANGED <<pc, ret>>
              ELSE /\ pc' = [pc EXCEPT ![r] = "done"]
                   /\ ret' = [ret EXCEPT ![r] = Err(ReturnedError(res[r].val, p.item))]
    /\ UNCHANGED <<op, data_verifier, remote, has_data_verifier, invoked, res, conv, extracted_files, recorded>>

\* ------------------------------------------- DownloadError and io::Error

IoKinds == {"Other", "NotFound", "UnexpectedEof"}

\* What io::Error::get_ref() finds: nothing, a cause of a foreign type, or a
\* boxed DownloadError (a record tagged Unzip, Remote or Io).
NoCause == [tag |-> "None", val |-> "none"]
ForeignCauses == {[tag |-> "Foreign", val |-> "f1"]}
ZipErrors == {"z1"}
RemoteErrors == {"r1"}

RECURSIVE IoErrors(_), DownloadErrors(_)
\* io::Error values whose causes nest at most d DownloadErrors deep.
IoErrors(d) ==
    {[kind |-> k, inner |-> c] :
        k \in IoKinds,
        c \in {NoCause} \cup ForeignCauses
               \cup (IF d = 0 THEN {} ELSE DownloadErrors(d - 1))}
\* enum DownloadError { Unzip(ZipError), Remote(RemoteError), Io(io::Error) }
DownloadErrors(d) ==
    {[tag |-> "Unzip", val |-> z] : z \in ZipErrors}
    \cup {[tag |-> "Remote", val |-> x] : x \in RemoteErrors}
    \cup {[tag |-> "Io", val |-> x] : x \in IoErrors(d)}

\* inner.downcast::<DownloadError>() succeeds.
IsDownloadError(cause) == cause.tag \in {"Unzip", "Remote", "Io"}

\* The conversion as it would be if a cause of a foreign type were dropped.
FromIoErrorCauseLost(err) ==
    IF err.inner # NoCause
    THEN IF IsDownloadError(err.inner)
         THEN err.inner
         ELSE [tag |-> "Io", val |-> [kind |-> err.kind, inner |-> NoCause]]
    ELSE [tag |-> "Io", val |-> err]

\* The conversion as it would be if `kind` were not carried over.
FromIoErrorKindLost(err) ==
    IF err.inner # NoCause
    THEN IF IsDownloadError(err.inner)
         THEN err.inner
         ELSE [tag |-> "Io", val |-> [kind |-> "Other", inner |-> err.inner]]
    ELSE [tag |-> "Io", val |-> err]

\* impl From<io::Error> for DownloadError
FromIoError(err) ==
    IF err.inner # NoCause
    THEN LET kind == err.kind
             inner == err.inner
         IN  IF IsDownloadError(inner)
             THEN inner
             ELSE [tag |-> "Io", val |-> [kind |-> kind, inner |-> inner]]
    ELSE [tag |-> "Io", val |-> err]

\* The conversion as it would be without the arm for DownloadError::Io.
FromDownloadErrorAlwaysWraps(e) == [kind |-> "Other", inner |-> e]

\* impl From<DownloadError> for io::Error
FromDownloadError(e) ==
    IF e.tag = "Io"
    THEN e.val
    ELSE [kind |-> "Other", inner |-> e]

\* DownloadError::from(io_error), applied to the value last produced.
IntoDownloadError ==
    /\ conv # << >>
    /\ Len(conv) <= MaxConversions
    /\ conv[Len(conv)].ty = "io::Error"
    /\ conv' = Append(conv, [ty |-> "DownloadError", v |-> FromIoError(conv[Len(conv)].v)])
    /\ UNCHANGED <<pipeVars, extracted_files, recorded>>

\* io::Error::from(download_error), applied to the value last produced.
IntoIoError ==
    /\ conv # << >>
    /\ Len(conv) <= MaxConversions
    /\ conv[Len(conv)].ty = "DownloadError"
    /\ conv' = Append(conv, [ty |-> "io::Error", v |-> FromDownloadError(conv[Len(conv)].v)])
    /\ UNCHANGED <<pipeVars, extracted_files, recorded>>

\* ------------------------------------------------- the extracted-files ledger

Names == {"a", "b"}

\* Relative paths as sequences of components; the root "." is the empty one.
Root == << >>
Paths == SeqsUpTo(Names, MaxDepth) \ {Root}

FileEntry == [tag |-> "File", children |-> {}]
DirEntry(children) == [tag |-> "Dir", children |-> children]

\* The ledger once an extraction has begun: the root, an empty Directory.
NewLedger == [p \in {Root} |-> DirEntry({})]

\* The proper ancestors of a path, the root included.
Ancestors(path) == {SubSeq(path, 1, k) : k \in 0..(Len(path) - 1)}

ChildrenOf(f, q) ==
    IF q \in DOMAIN f /\ f[q].tag = "Dir" THEN f[q].children ELSE {}

\* record as it would be if it only inserted the entry itself.
RecordEntryOnly(f, path, is_directory) ==
    [q \in DOMAIN f \cup {path} |->
        IF q = path
        THEN IF is_directory THEN DirEntry(ChildrenOf(f, q)) ELSE FileEntry
        ELSE f[q]]

\* record(path, is_directory): the entry is inserted or updated, and every
\* ancestor up to the root is a Directory that lists the component below it.
Record(f, path, is_directory) ==
    [q \in DOMAIN f \cup {path} \cup Ancestors(path) |->
        IF q = path
        THEN IF is_directory THEN DirEntry(ChildrenOf(f, q)) ELSE FileEntry
        ELSE IF q \in Ancestors(path)
             THEN DirEntry(ChildrenOf(f, q) \cup {path[Len(q) + 1]})
             ELSE f[q]]

\* has_file as it would be if it asked only whether the path is recorded.
HasEntry(f, path) == path \in DOMAIN f

\* has_file(path): the path is present and tagged File.
HasFile(f, path) == path \in DOMAIN f /\ f[path].tag = "File"

NoDir == [some |-> FALSE, children |-> {}]

\* get_dir(path): the child set if the path is present and tagged Directory.
GetDir(f, path) ==
    IF path \in DOMAIN f /\ f[path].tag = "Dir"
    THEN [some |-> TRUE, children |-> f[path].children]
    ELSE NoDir

\* The filesystem lets a successful extraction create the entry: nothing of
\* the other kind is at the path, and no ancestor is a file.
Creatable(f, path, is_directory) ==
    /\ path \in DOMAIN f => (f[path].tag = "Dir") = is_directory
    /\ \A q \in Ancestors(path) : q \in DOMAIN f => f[q].tag = "Dir"

\* A strategy writes one file or directory and records it.
RecordPath(path, is_directory) ==
    /\ Creatable(extracted_files, path, is_directory)
    /\ Cardinality(recorded \cup {<<path, is_directory>>}) <= MaxRecords
    /\ extracted_files' = Record(extracted_files, path, is_directory)
    /\ recorded' = recorded \cup {<<path, is_directory>>}
    /\ UNCHANGED <<pipeVars, conv>>

InitLedger ==
    /\ extracted_files = NewLedger
    /\ recorded = {}

\* ------------------------------------------------------------ the machine

Calls ==
    {[fn |-> "and_extract", fmt |-> f] : f \in PkgFmts}
    \cup {[fn |-> "and_visit_tar", fmt |-> f] : f \in TarBasedFmts}

Remotes == {[open |-> o, body |-> b] : o \in BOOLEAN, b \in Bodies}

\* Download::new / new_with_data_verifier for the requests in `built`, each
\* about to be consumed by one terminal operation.
InitRequests(built) ==
    /\ pc = [r \in Requests |-> IF r \in built THEN "new" ELSE "unused"]
    /\ \E f \in [built -> Calls] :
          op = [r \in Requests |-> IF r \in built THEN f[r]
                                   ELSE [fn |-> "and_extract", fmt |-> "Bin"]]
    /\ \E f \in [built -> BOOLEAN] :
          data_verifier = [r \in Requests |-> IF r \in built THEN f[r] ELSE FALSE]
    /\ \E f \in [built -> Remotes] :
          remote = [r \in Requests |-> IF r \in built THEN f[r]
                                       ELSE [open |-> FALSE, body |-> << >>]]
    /\ has_data_verifier = [r \in Requests |-> FALSE]
    /\ stream = [r \in Requests |-> [pos |-> 0, polls |-> 0]]
    /\ fuse_done = [r \in Requests |-> FALSE]
    /\ observed = [r \in Requests |-> << >>]
    /\ log = [r \in Requests |-> << >>]
    /\ invoked = [r \in Requests |-> << >>]
    /\ res = [r \in Requests |-> Pending]
    /\ ret = [r \in Requests |-> Pending]

Init ==
    /\ InitRequests({1})
    /\ conv = << >>
    /\ InitLedger

Next ==
    \E r \in Requests :
        \/ AndExtractStart(r)
        \/ AndVisitTarStart(r)
        \/ AndExtractOpened(r)
        \/ AndVisitTarOpened(r)
        \/ StrategyPull(r)
        \/ AndExtractOk(r)
        \/ AndVisitTarOk(r)
        \/ AndExtractErr(r)
        \/ AndVisitTarErr(r)
        \/ ConsumeStream(r)

Spec == Init /\ [][Next]_vars

\* The request's task is polled until its future completes, so a drain that
\* can pull does pull.
SpecFair == Spec /\ \A r \in Requests : WF_vars(ConsumeStream(r))

\* Two requests, each with a verifier of its own, run on one client: one
\* extracts, one visits, and their steps interleave freely.
ConcCalls ==
    [r \in Requests |-> IF r = 1 THEN [fn |-> "and_extract", fmt |-> "Tgz"]
                                 ELSE [fn |-> "and_visit_tar", fmt |-> "Tar"]]

InitConc ==
    /\ pc = [r \in Requests |-> "new"]
    /\ op = ConcCalls
    /\ data_verifier = [r \in Requests |-> TRUE]
    /\ \E b \in [Requests -> SeqsUpTo({"chunk", "err"}, MaxConcItems)] :
          remote = [r \in Requests |-> [open |-> TRUE, body |-> b[r]]]
    /\ has_data_verifier = [r \in Requests |-> FALSE]
    /\ stream = [r \in Requests |-> [pos |-> 0, polls |-> 0]]
    /\ fuse_done = [r \in Requests |-> FALSE]
    /\ observed = [r \in Requests |-> << >>]
    /\ log = [r \in Requests |-> << >>]
    /\ invoked = [r \in Requests |-> << >>]
    /\ res = [r \in Requests |-> Pending]
    /\ ret = [r \in Requests |-> Pending]
    /\ conv = << >>
    /\ InitLedger

SpecConc == InitConc /\ [][Next]_vars

\* The conversions alone, applied to every error value of bounded depth.
InitErr ==
    /\ InitRequests({})
    /\ conv \in {<<[ty |-> "DownloadError", v |-> e]>> : e \in DownloadErrors(ErrDepth)}
              \cup {<<[ty |-> "io::Error", v |-> x]>> : x \in IoErrors(ErrDepth)}
    /\ InitLedger

NextErr == IntoDownloadError \/ IntoIoError

SpecErr == InitErr /\ [][NextErr]_vars

\* The ledger alone, under every bounded run of records a successful
\* extraction may make.
InitFiles ==
    /\ InitRequests({})
    /\ conv = << >>
    /\ InitLedger

NextFiles == \E path \in Paths, is_directory \in BOOLEAN : RecordPath(path, is_directory)

SpecFiles == InitFiles /\ [][NextFiles]_vars

\* ------------------------------------------------------------- properties

\* The chunks among items lo..hi of request r's body, in stream order.
Chunks(r, lo, hi) ==
    SelectSeq([i \in 1..(IF hi < lo THEN 0 ELSE hi - lo + 1) |-> Item(r, lo + i - 1)],
              LAMBDA it : it.kind = "chunk")

BodyLen(r) == Len(remote[r].body)

\* How many items of the body the strategy pulled before it returned.
Taken(r) ==
    Len(SelectSeq(log[r], LAMBDA e : e.ev = "poll" /\ e.who = "strategy"
                                      /\ e.item.kind # "none"))

\* The first failure among the items the strategy left unpulled, if any.
LeftErrors(r) == {i \in (Taken(r) + 1)..BodyLen(r) : remote[r].body[i] = "err"}

\* The terminal operation has returned after its strategy failed with a
\* verifier attached.
FailedWithVerifier(r) ==
    pc[r] = "done" /\ data_verifier[r] /\ res[r].tag = "Err"

\* C1 (drain on failure): when the strategy of and_extract or and_visit_tar
\* fails with a verifier attached and the items it left unpulled are chunks
\* only, the verifier has observed every chunk of the body, in stream order,
\* when the operation returns its error.
C1_DrainOnFailure ==
    \A r \in Requests :
        (FailedWithVerifier(r) /\ LeftErrors(r) = {})
            => /\ observed[r] = Chunks(r, 1, BodyLen(r))
               /\ ret[r].tag = "Err"

\* A failure after N >= 1 pulled chunks with M >= 1 chunks left, all observed.
C1_Witness ==
    \E r \in Requests :
        /\ FailedWithVerifier(r) /\ LeftErrors(r) = {}
        /\ Taken(r) >= 1 /\ Taken(r) < BodyLen(r)
        /\ remote[r].body[1] = "chunk"
        /\ Len(observed[r]) = BodyLen(r)

\* C2 as claimed: after a failure with a verifier attached the drain pulls
\* every remaining item, errors included, up to true exhaustion, and every
\* chunk of the body has been passed to the verifier.
C2_DrainsThroughErrors ==
    \A r \in Requests :
        FailedWithVerifier(r)
            => /\ stream[r].pos = BodyLen(r)
               /\ fuse_done[r]
               /\ observed[r] = Chunks(r, 1, BodyLen(r))

\* C3 (verifying adapter): the chunks passed to the verifier are exactly the
\* chunks pulled from the source so far, in arrival order, each once and
\* right before it is yielded; a pull that fails is yielded as pulled and
\* never reaches the verifier.
C3_VerifyingAdapter ==
    \A r \in Requests :
        /\ observed[r] = IF data_verifier[r] THEN Chunks(r, 1, stream[r].pos) ELSE << >>
        /\ \A i \in 1..Len(log[r]) :
              LET e == log[r][i]
              IN  /\ (e.ev = "yield" /\ e.item.kind = "chunk" /\ data_verifier[r])
                        => i > 1 /\ log[r][i - 1] = [e EXCEPT !.ev = "update"]
                  /\ e.ev = "update"
                        => /\ e.item.kind = "chunk"
                           /\ i > 1 /\ log[r][i - 1] = [e EXCEPT !.ev = "poll"]
                  /\ (e.ev = "poll" /\ e.item.kind = "err")
                        => i < Len(log[r]) /\ log[r][i + 1] = [e EXCEPT !.ev = "yield"]

\* A chunk was verified after a failed pull had been passed on.
C3_Witness ==
    \E r \in Requests :
        /\ data_verifier[r]
        /\ stream[r].pos >= 3
        /\ remote[r].body[1] = "chunk" /\ remote[r].body[2] = "err"
        /\ remote[r].body[3] = "chunk"
        /\ Len(observed[r]) = 2

\* C6 as claimed: and_visit_tar ignores the verifier, so its update is never
\* invoked.
C6_VisitIgnoresVerifier ==
    \A r \in Requests :
        (op[r].fn = "and_visit_tar" /\ data_verifier[r]) => observed[r] = << >>

\* C7 (no drain without a verifier): when no verifier is attached nothing is
\* pulled by a drain, and a failed strategy makes the operation return at
\* once.
C7_NoDrainWithoutVerifier ==
    \A r \in Requests :
        ~data_verifier[r]
            => /\ pc[r] # "drain"
               /\ \A i \in 1..Len(log[r]) : log[r][i].who = "strategy"
               /\ res[r].tag = "Err" => pc[r] = "done" /\ ret[r].tag = "Err"

\* A strategy failed without a verifier and items were left unpulled.
C7_Witness ==
    \E r \in Requests :
        /\ ~data_verifier[r] /\ res[r].tag = "Err" /\ pc[r] = "done"
        /\ Taken(r) >= 1
        /\ stream[r].pos < BodyLen(r)

EndReported(r) ==
    \E i \in 1..Len(log[r]) : log[r][i].ev = "yield" /\ log[r][i].item.kind = "none"

\* C8 (terminal exhaustion): once the verifying stream has yielded
\* end-of-stream, a later pull yields end-of-stream again, the source is not
\* polled and the verifier is not invoked.
C8_TerminalExhaustion ==
    [][\A r \in Requests :
          EndReported(r)
              => /\ stream'[r] = stream[r]
                 /\ observed'[r] = observed[r]
                 /\ \/ log'[r] = log[r]
                    \/ \E who \in {"strategy", "drain"} :
                          log'[r] = Append(log[r], [ev |-> "yield", who |-> who,
                                                    item |-> NoneItem])]_vars

\* End-of-stream was yielded to the strategy and again to the drain, with the
\* source polled once past its last item.
C8_Witness ==
    \E r \in Requests :
        /\ \E i \in 1..Len(YieldedTo(r, "strategy")) :
              YieldedTo(r, "strategy")[i].item.kind = "none"
        /\ \E i \in 1..Len(YieldedTo(r, "drain")) :
              YieldedTo(r, "drain")[i].item.kind = "none"
        /\ BodyLen(r) >= 1
        /\ stream[r].polls = BodyLen(r) + 1

\* C9 (error propagation): after the strategy failed the operation never
\* returns success, and what it returns is exactly the strategy's error,
\* whatever the drain met.
C9_ErrorPropagation ==
    \A r \in Requests :
        res[r].tag = "Err"
            => /\ ret[r].tag # "Ok"
               /\ pc[r] = "done" => ret[r] = res[r]
               /\ pc[r] # "done" => ret[r] = Pending

\* The drain met a failure other than the one the strategy returned.
C9_Witness ==
    \E r \in Requests :
        /\ pc[r] = "done" /\ res[r].tag = "Err" /\ ret[r] = res[r]
        /\ \E i \in 1..Len(YieldedTo(r, "drain")) :
              /\ YieldedTo(r, "drain")[i].item.kind = "err"
              /\ res[r].val # RemoteError(YieldedTo(r, "drain")[i].item)

\* C10 (dispatch): and_extract calls one strategy, once: the one the
\* decomposition of its format names, also when that strategy fails.
C10_Dispatch ==
    \A r \in Requests :
        op[r].fn = "and_extract"
            => LET d == Decompose(op[r].fmt)
                   named == CASE d.tag = "Tar" -> "extract_tar_based_stream"
                              [] d.tag = "Zip" -> "extract_zip"
                              [] d.tag = "Bin" -> "extract_bin"
               IN  IF pc[r] \in {"strategy", "drain", "done"} /\ remote[r].open
                   THEN invoked[r] = <<[fn |-> named, fmt |-> d.fmt]>>
                   ELSE invoked[r] = << >>

\* A zip extraction failed and was drained; extract_zip alone was called.
C10_Witness ==
    \E r \in Requests :
        /\ op[r] = [fn |-> "and_extract", fmt |-> "Zip"]
        /\ pc[r] = "done" /\ res[r].tag = "Err"
        /\ invoked[r] = <<[fn |-> "extract_zip", fmt |-> "none"]>>

\* C4 as claimed: DownloadError -> io::Error -> DownloadError gives back the
\* value it started from, for every DownloadError.
C4_WrapUnwrapIdentity ==
    (Len(conv) >= 3 /\ conv[1].ty = "DownloadError") => conv[3].v = conv[1].v

\* C4 as the code has it: the round trip gives back Unzip, Remote and every
\* Io whose io::Error embeds no DownloadError; an Io whose io::Error embeds a
\* DownloadError comes back as that embedded DownloadError.
C4_WrapUnwrap ==
    (Len(conv) >= 3 /\ conv[1].ty = "DownloadError")
        => LET e == conv[1].v
           IN  /\ conv[2].ty = "io::Error" /\ conv[3].ty = "DownloadError"
               /\ IF e.tag = "Io" /\ e.val.inner.tag \in {"Unzip", "Remote", "Io"}
                  THEN conv[3].v = e.val.inner
                  ELSE conv[3].v = e

\* An Io with a foreign cause and a kind of its own made the round trip.
C4_Witness ==
    /\ Len(conv) >= 3
    /\ conv[1].ty = "DownloadError"
    /\ conv[1].v.tag = "Io"
    /\ conv[1].v.val.kind = "NotFound"
    /\ conv[1].v.val.inner.tag = "Foreign"
    /\ conv[3].v = conv[1].v

\* C5 as claimed: io::Error -> DownloadError -> io::Error gives back the kind
\* and the cause it started from, for every io::Error.
C5_UnwrapWrapIdentity ==
    (Len(conv) >= 3 /\ conv[1].ty = "io::Error") => conv[3].v = conv[1].v

\* C5 as the code has it: the round trip gives back every io::Error that
\* embeds no DownloadError; one that embeds Unzip or Remote comes back with
\* that cause and the kind Other; one that embeds Io(y) comes back as y.
C5_UnwrapWrap ==
    (Len(conv) >= 3 /\ conv[1].ty = "io::Error")
        => LET x == conv[1].v
           IN  /\ conv[2].ty = "DownloadError" /\ conv[3].ty = "io::Error"
               /\ CASE x.inner.tag \in {"Unzip", "Remote"}
                          -> conv[3].v = [kind |-> "Other", inner |-> x.inner]
                    [] x.inner.tag = "Io" -> conv[3].v = x.inner.val
                    [] OTHER -> conv[3].v = x

\* An io::Error of kind Other embedding an Unzip made the round trip intact.
C5_Witness ==
    /\ Len(conv) >= 3
    /\ conv[1].ty = "io::Error"
    /\ conv[1].v.kind = "Other"
    /\ conv[1].v.inner.tag = "Unzip"
    /\ conv[3].v = conv[1].v

\* C11 (no pipeline error inside): an io::Error with no cause, or with a cause
\* that is no DownloadError, converts to Io holding an io::Error of the same
\* kind and the same cause, and converting that back gives the same kind.
C11_PlainIoError ==
    (Len(conv) >= 2 /\ conv[1].ty = "io::Error"
        /\ conv[1].v.inner.tag \in {"None", "Foreign"})
        => /\ conv[2].ty = "DownloadError"
           /\ conv[2].v.tag = "Io"
           /\ conv[2].v.val.kind = conv[1].v.kind
           /\ conv[2].v.val.inner = conv[1].v.inner
           /\ Len(conv) >= 3 => conv[3].ty = "io::Error"
                                 /\ conv[3].v.kind = conv[1].v.kind

\* An io::Error of kind UnexpectedEof with a foreign cause went both ways.
C11_Witness ==
    /\ Len(conv) >= 3
    /\ conv[1].ty = "io::Error"
    /\ conv[1].v.kind = "UnexpectedEof"
    /\ conv[1].v.inner.tag = "Foreign"
    /\ conv[2].v.tag = "Io"
    /\ conv[3].v.kind = "UnexpectedEof"

\* Everything one request owns.
StateOf(r) ==
    <<pc[r], op[r], data_verifier[r], remote[r], has_data_verifier[r], stream[r],
      fuse_done[r], observed[r], log[r], invoked[r], res[r], ret[r]>>

\* C12 (isolation): with two requests running concurrently, each verifier has
\* observed exactly the chunks pulled from its own request's stream, in that
\* stream's order; a step of one request changes nothing the other owns; and
\* what a request returns is its own strategy's result.
C12_Isolation ==
    /\ [](\A r \in Requests :
            /\ observed[r] = Chunks(r, 1, stream[r].pos)
            /\ \A i \in 1..Len(log[r]) : log[r][i].item.url \in {0, r}
            /\ pc[r] = "done" => ret[r] = res[r])
    /\ [][\A r \in Requests : \A q \in Requests \ {r} :
            StateOf(r)' # StateOf(r) => StateOf(q)' = StateOf(q)]_vars

\* Both requests failed and were drained after each verifier had seen two
\* chunks, the steps of the two having interleaved.
C12_Witness ==
    /\ \A r \in Requests :
          /\ pc[r] = "done" /\ res[r].tag = "Err"
          /\ Len(observed[r]) = 2 /\ observed[r][1].url = r
          /\ Len(YieldedTo(r, "strategy")) = 1
    /\ op[1] # op[2]

Parent(path) == SubSeq(path, 1, Len(path) - 1)

\* C13 (ledger invariant): after any run of records of a successful
\* extraction the root "." is a Directory, and every other recorded path has
\* its parent recorded as a Directory whose children hold the path's last
\* component.
C13_LedgerInvariant ==
    /\ Root \in DOMAIN extracted_files
    /\ extracted_files[Root].tag = "Dir"
    /\ \A p \in DOMAIN extracted_files \ {Root} :
          /\ Parent(p) \in DOMAIN extracted_files
          /\ extracted_files[Parent(p)].tag = "Dir"
          /\ p[Len(p)] \in extracted_files[Parent(p)].children

\* A file two levels down was recorded beside a top-level file: the root lists
\* both top-level names and the implied directory lists the file.
C13_Witness ==
    /\ recorded = {<<(<<"a", "b">>), FALSE>>, <<(<<"b">>), FALSE>>}
    /\ DOMAIN extracted_files = {Root, <<"a">>, <<"a", "b">>, <<"b">>}
    /\ extracted_files[Root] = DirEntry({"a", "b"})
    /\ extracted_files[<<"a">>] = DirEntry({"b"})

\* The names recorded right below a path.
NamesBelow(p) ==
    {n \in Names : \E rec \in recorded :
        Len(rec[1]) > Len(p) /\ SubSeq(rec[1], 1, Len(p) + 1) = Append(p, n)}

\* C14 (exclusivity): every recorded path is tagged File or Directory, never
\* both; has_file holds exactly of the paths recorded as files, so not of a
\* Directory nor of an unrecorded path; get_dir gives the child set exactly
\* for the paths tagged Directory.
C14_Exclusivity ==
    \A p \in Paths \cup {Root} :
        /\ HasFile(extracted_files, p) <=> <<p, FALSE>> \in recorded
        /\ GetDir(extracted_files, p).some
              <=> \/ p = Root
                  \/ <<p, TRUE>> \in recorded
                  \/ \E rec \in recorded : p \in Ancestors(rec[1])
        /\ GetDir(extracted_files, p).some
              => GetDir(extracted_files, p).children = NamesBelow(p)
        /\ ~(HasFile(extracted_files, p) /\ GetDir(extracted_files, p).some)
        /\ p \notin DOMAIN extracted_files
              => ~HasFile(extracted_files, p) /\ GetDir(extracted_files, p) = NoDir
        /\ p \in DOMAIN extracted_files
              => (extracted_files[p].tag = "File") # (extracted_files[p].tag = "Dir")

\* A directory holding a file, and a path never recorded: has_file is false
\* for the directory and the unrecorded path, true for the file.
C14_Witness ==
    /\ <<(<<"a">>), TRUE>> \in recorded
    /\ <<(<<"a", "b">>), FALSE>> \in recorded
    /\ ~HasFile(extracted_files, <<"a">>)
    /\ GetDir(extracted_files, <<"a">>) = [some |-> TRUE, children |-> {"b"}]
    /\ HasFile(extracted_files, <<"a", "b">>)
    /\ <<"b">> \notin DOMAIN extracted_files
    /\ ~HasFile(extracted_files, <<"b">>)
    /\ GetDir(extracted_files, <<"a", "b">>) = NoDir

ErrorYielded(r) ==
    \E i \in 1..Len(log[r]) : log[r][i].ev = "yield" /\ log[r][i].item.kind = "err"

\* C15 (an error does not exhaust): after a pull has yielded a failure, and
\* until end-of-stream is yielded, a pull polls the source and yields what the
\* source produces next; if that is a chunk and a verifier is attached, the
\* verifier gets it.
C15_ErrorDoesNotExhaust ==
    [][\A r \in Requests :
          (ErrorYielded(r) /\ ~EndReported(r) /\ log'[r] # log[r])
              => LET next == IF stream[r].pos < BodyLen(r)
                             THEN Item(r, stream[r].pos + 1) ELSE NoneItem
                     last == log'[r][Len(log'[r])]
                 IN  /\ stream'[r].polls = stream[r].polls + 1
                     /\ last.ev = "yield" /\ last.item = next
                     /\ observed'[r] = IF next.kind = "chunk" /\ data_verifier[r]
                                       THEN Append(observed[r], next)
                                       ELSE observed[r]]_vars

\* A failed pull was followed by a verified chunk, another failure and
\* end-of-stream.
C15_Witness ==
    \E r \in Requests :
        /\ data_verifier[r]
        /\ remote[r].body = <<"err", "chunk", "err">>
        /\ observed[r] = <<Item(r, 2)>>
        /\ stream[r].polls = 4
        /\ EndReported(r)

\* C16 (no drain on success): when the strategy or the visit returns Ok the
\* operation returns Ok and nothing more is pulled: the verifier has observed
\* exactly the chunks the strategy pulled, and what the strategy left unread
\* stays unobserved.
C16_NoDrainOnSuccess ==
    \A r \in Requests :
        res[r].tag = "Ok"
            => /\ pc[r] = "done" /\ ret[r] = res[r]
               /\ \A i \in 1..Len(log[r]) : log[r][i].who = "strategy"
               /\ stream[r].pos = Taken(r)
               /\ observed[r] = IF data_verifier[r] THEN Chunks(r, 1, Taken(r)) ELSE << >>

\* A visit with a verifier stopped after the first of three chunks and
\* succeeded.
C16_Witness ==
    \E r \in Requests :
        /\ op[r].fn = "and_visit_tar" /\ data_verifier[r]
        /\ pc[r] = "done" /\ ret[r].tag = "Ok"
        /\ remote[r].body = <<"chunk", "chunk", "chunk">>
        /\ observed[r] = <<Item(r, 1)>>
        /\ ~fuse_done[r]

\* C17 (failure to open): when client.get_stream fails, the operation returns
\* that failure as a Remote error; no strategy or visit is called, the
\* verifier is not invoked and nothing is pulled or drained.
C17_OpenFailure ==
    \A r \in Requests :
        (~remote[r].open /\ pc[r] \notin {"unused", "new"})
            => /\ pc[r] \in {"opening", "done"}
               /\ pc[r] = "opening" => ret[r] = Pending
               /\ pc[r] = "done"
                     => ret[r] = Err(OpenError(r)) /\ ret[r].val.tag = "Remote"
               /\ res[r] = Pending
               /\ invoked[r] = << >>
               /\ observed[r] = << >>
               /\ log[r] = << >>
               /\ stream[r].polls = 0

\* A request with a verifier and a body to serve failed to open.
C17_Witness ==
    \E r \in Requests :
        /\ ~remote[r].open /\ pc[r] = "done"
        /\ data_verifier[r] /\ has_data_verifier[r]
        /\ BodyLen(r) >= 2
        /\ ret[r].tag = "Err"

\* C18 as claimed: the drain after a failed extraction with a verifier
\* attached ends with the verifying stream exhausted.
C18_DrainEndsExhausted ==
    \A r \in Requests : FailedWithVerifier(r) => fuse_done[r]

====
